---- MODULE Spec2Model ----
(***************************************************************************)
(* A model of the Palletizer Go client (package client, client.go):        *)
(*   - the unit conversions and pallet presets, computed in IEEE-754       *)
(*     binary64 as Go's float64 computes them;                             *)
(*   - the three API calls Pack, Health and Metrics as a state machine     *)
(*     over the caller, the HTTP exchange and the remote service.          *)
(***************************************************************************)
EXTENDS Integers, Sequences, FiniteSets, TLC

Max(a, b) == IF a >= b THEN a ELSE b
Min(a, b) == IF a <= b THEN a ELSE b

(***************************************************************************)
(* Natural numbers of any size: little-endian sequences of limbs below     *)
(* Base, without leading zero limbs (<<>> is 0).  float64 has a 53-bit     *)
(* significand and its products have 106 bits; TLC's integers have 32.     *)
(***************************************************************************)
LimbBits == 14
Base == 2^LimbBits

RECURSIVE BNorm(_)
BNorm(a) ==
    IF a = <<>> THEN <<>>
    ELSE IF a[Len(a)] = 0 THEN BNorm(SubSeq(a, 1, Len(a) - 1))
    ELSE a

RECURSIVE BFromNat(_)
BFromNat(n) == IF n = 0 THEN <<>> ELSE <<n % Base>> \o BFromNat(n \div Base)

Limb(a, i) == IF i <= Len(a) THEN a[i] ELSE 0

RECURSIVE BAddC(_, _, _, _)
BAddC(a, b, i, c) ==
    IF i > Len(a) /\ i > Len(b)
    THEN (IF c = 0 THEN <<>> ELSE <<c>>)
    ELSE LET t == Limb(a, i) + Limb(b, i) + c
         IN  <<t % Base>> \o BAddC(a, b, i + 1, t \div Base)

BAdd(a, b) == BAddC(a, b, 1, 0)

\* a - b for a >= b
RECURSIVE BSubC(_, _, _, _)
BSubC(a, b, i, br) ==
    IF i > Len(a) THEN <<>>
    ELSE LET t == Limb(a, i) - Limb(b, i) - br
         IN  IF t < 0 THEN <<t + Base>> \o BSubC(a, b, i + 1, 1)
                      ELSE <<t>> \o BSubC(a, b, i + 1, 0)

BSub(a, b) == BNorm(BSubC(a, b, 1, 0))

RECURSIVE BCmpFrom(_, _, _)
BCmpFrom(a, b, i) ==
    IF i = 0 THEN 0
    ELSE IF a[i] < b[i] THEN -1
    ELSE IF a[i] > b[i] THEN 1
    ELSE BCmpFrom(a, b, i - 1)

\* -1, 0 or 1 as a < b, a = b or a > b
BCmp(a, b) ==
    IF Len(a) < Len(b) THEN -1
    ELSE IF Len(a) > Len(b) THEN 1
    ELSE BCmpFrom(a, b, Len(a))

\* a * k for 0 <= k < 2^16
RECURSIVE BMulSmallC(_, _, _, _)
BMulSmallC(a, k, i, c) ==
    IF i > Len(a) THEN BFromNat(c)
    ELSE LET t == a[i] * k + c
         IN  <<t % Base>> \o BMulSmallC(a, k, i + 1, t \div Base)

BMulSmall(a, k) == IF k = 0 THEN <<>> ELSE BMulSmallC(a, k, 1, 0)

\* a * Base^n
LimbShl(a, n) ==
    IF a = <<>> \/ n = 0 THEN a ELSE [i \in 1..n |-> 0] \o a

RECURSIVE BMulFrom(_, _, _)
BMulFrom(a, b, i) ==
    IF i > Len(b) THEN <<>>
    ELSE BAdd(LimbShl(BMulSmall(a, b[i]), i - 1), BMulFrom(a, b, i + 1))

BMul(a, b) == BMulFrom(a, b, 1)

\* quotient and remainder of a by d, 0 < d <= 2^16
RECURSIVE BDivSmallFrom(_, _, _, _)
BDivSmallFrom(a, d, i, r) ==
    IF i = 0 THEN [q |-> <<>>, r |-> r]
    ELSE LET t == r * Base + a[i]
             rest == BDivSmallFrom(a, d, i - 1, t % d)
         IN  [q |-> rest.q \o <<t \div d>>, r |-> rest.r]

BDivSmall(a, d) ==
    LET x == BDivSmallFrom(a, d, Len(a), 0)
    IN  [q |-> BNorm(x.q), r |-> x.r]

\* a * 2^n
BShl(a, n) == LimbShl(BMulSmall(a, 2^(n % LimbBits)), n \div LimbBits)

\* floor(a / 2^n)
BShr(a, n) ==
    LET k == n \div LimbBits
        kept == IF k >= Len(a) THEN <<>> ELSE SubSeq(a, k + 1, Len(a))
    IN  BDivSmall(kept, 2^(n % LimbBits)).q

RECURSIVE BitLenSmall(_)
BitLenSmall(x) == IF x = 0 THEN 0 ELSE 1 + BitLenSmall(x \div 2)

BBitLen(a) ==
    IF a = <<>> THEN 0 ELSE (Len(a) - 1) * LimbBits + BitLenSmall(a[Len(a)])

BOne == <<1>>

\* a / 2^s rounded to the nearest integer, ties to even (s >= 1)
BShrRNE(a, s) ==
    LET q == BShr(a, s)
        rem == BSub(a, BShl(q, s))
        c == BCmp(rem, BShl(BOne, s - 1))
        odd == q # <<>> /\ q[1] % 2 = 1
    IN  IF c > 0 \/ (c = 0 /\ odd) THEN BAdd(q, BOne) ELSE q

\* One quotient limb of schoolbook long division: floor(r / b) for r < b * Base
\* and b's top limb at least Base / 2.  The estimate from the leading limbs is
\* never too small and at most 2 too large.
RECURSIVE QFix(_, _, _)
QFix(r, b, q) == IF BCmp(BMulSmall(b, q), r) > 0 THEN QFix(r, b, q - 1) ELSE q

QDigit(r, b) ==
    LET n == Len(b)
        top == Limb(r, n + 1) * Base + Limb(r, n)
    IN  QFix(r, b, Min(Base - 1, top \div b[n]))

RECURSIVE BDivFrom(_, _, _, _)
BDivFrom(a, b, i, r) ==
    IF i = 0 THEN [q |-> <<>>, r |-> r]
    ELSE LET r1 == BNorm(<<a[i]>> \o r)
             d == QDigit(r1, b)
             rest == BDivFrom(a, b, i - 1, BSub(r1, BMulSmall(b, d)))
         IN  [q |-> rest.q \o <<d>>, r |-> rest.r]

\* quotient and remainder of a by b > 0
BDivMod(a, b) ==
    LET s == (LimbBits - (BBitLen(b) % LimbBits)) % LimbBits
        as == BShl(a, s)
        x == BDivFrom(as, BShl(b, s), Len(as), <<>>)
    IN  [q |-> BNorm(x.q), r |-> BShr(x.r, s)]

(***************************************************************************)
(* float64: IEEE-754 binary64.  A finite value is (-1)^neg * m * 2^e with  *)
(* m a 53-bit significand (fewer bits only for a subnormal, e = MinExp),   *)
(* zero is m = <<>>, e = 0.  Arithmetic rounds to nearest, ties to even.   *)
(***************************************************************************)
SigBits == 53
MinExp == -1074
MaxExp == 1023

FZero(neg) == [cls |-> "fin", neg |-> neg, m |-> <<>>, e |-> 0]
FInf(neg) == [cls |-> "inf", neg |-> neg, m |-> <<>>, e |-> 0]
FNaN == [cls |-> "nan", neg |-> FALSE, m |-> <<>>, e |-> 0]

IsZero(x) == x.cls = "fin" /\ x.m = <<>>

\* the float64 nearest to (-1)^neg * n * 2^e
RoundF64(neg, n, e) ==
    IF n = <<>> THEN FZero(neg)
    ELSE LET s == Max(BBitLen(n) - SigBits, MinExp - e)
             m0 == IF s > 0 THEN BShrRNE(n, s) ELSE BShl(n, -s)
             carry == BBitLen(m0) > SigBits
             m == IF carry THEN BShr(m0, 1) ELSE m0
             ex == IF carry THEN e + s + 1 ELSE e + s
         IN  IF m = <<>> THEN FZero(neg)
             ELSE IF ex + BBitLen(m) - 1 > MaxExp THEN FInf(neg)
             ELSE [cls |-> "fin", neg |-> neg, m |-> m, e |-> ex]

\* the float64 of the decimal constant (-1)^neg * num / den (0 < den <= 2^16),
\* as the Go compiler converts an untyped constant
F64Lit(neg, num, den) ==
    LET d == BDivSmall(BShl(BFromNat(num), 70), den)
        n == BAdd(BShl(d.q, 1), IF d.r = 0 THEN <<>> ELSE BOne)
    IN  RoundF64(neg, n, -71)

F64(num, den) == F64Lit(FALSE, num, den)

\* x * y
FMul(x, y) ==
    IF x.cls = "nan" \/ y.cls = "nan" THEN FNaN
    ELSE IF x.cls = "inf" \/ y.cls = "inf"
         THEN (IF IsZero(x) \/ IsZero(y) THEN FNaN ELSE FInf(x.neg # y.neg))
    ELSE RoundF64(x.neg # y.neg, BMul(x.m, y.m), x.e + y.e)

\* x / y
FDiv(x, y) ==
    IF x.cls = "nan" \/ y.cls = "nan" THEN FNaN
    ELSE IF x.cls = "inf"
         THEN (IF y.cls = "inf" THEN FNaN ELSE FInf(x.neg # y.neg))
    ELSE IF y.cls = "inf" THEN FZero(x.neg # y.neg)
    ELSE IF IsZero(y)
         THEN (IF IsZero(x) THEN FNaN ELSE FInf(x.neg # y.neg))
    ELSE IF IsZero(x) THEN FZero(x.neg # y.neg)
    ELSE LET k == Max(0, 56 + BBitLen(y.m) - BBitLen(x.m))
             d == BDivMod(BShl(x.m, k), y.m)
             n == BAdd(BShl(d.q, 1), IF d.r = <<>> THEN <<>> ELSE BOne)
         IN  RoundF64(x.neg # y.neg, n, x.e - y.e - k - 1)

\* Go's x == y on float64
FEq(x, y) ==
    /\ x.cls # "nan" /\ y.cls # "nan"
    /\ \/ IsZero(x) /\ IsZero(y)
       \/ x = y

\* |x - y| <= num / den, exactly (x, y finite)
FWithin(x, y, num, den) ==
    /\ x.cls = "fin" /\ y.cls = "fin"
    /\ LET e0 == Min(x.e, y.e)
           X == BShl(x.m, x.e - e0)
           Y == BShl(y.m, y.e - e0)
           D == IF x.neg = y.neg
                THEN (IF BCmp(X, Y) >= 0 THEN BSub(X, Y) ELSE BSub(Y, X))
                ELSE BAdd(X, Y)
           lhs == BMulSmall(D, den)
           n == BFromNat(num)
       IN  IF e0 >= 0 THEN BCmp(BShl(lhs, e0), n) <= 0
                      ELSE BCmp(lhs, BShl(n, -e0)) <= 0

\* x * 2^k, exactly (x finite and normal, the result in range)
FScale(x, k) == IF IsZero(x) THEN x ELSE [x EXCEPT !.e = @ + k]

FNeg(x) == IF x.cls = "nan" THEN x ELSE [x EXCEPT !.neg = ~@]

\* the float64 next above a positive finite x
FNextUp(x) ==
    LET m1 == BAdd(x.m, BOne)
    IN  IF BBitLen(m1) > SigBits
        THEN RoundF64(x.neg, m1, x.e)
        ELSE [x EXCEPT !.m = m1]

\* x is finite and |x| < 2^k
FAbsBelowPow2(x, k) ==
    x.cls = "fin" /\ (IsZero(x) \/ x.e + BBitLen(x.m) <= k)

(***************************************************************************)
(* Unit conversions and pallet presets (client.go, 261-299).               *)
(***************************************************************************)
MMPerInch == F64(254, 10)
GramsPerPound == F64(453592, 1000)

InchesToMM(inches) == FMul(inches, MMPerInch)

PoundsToGrams(pounds) == FMul(pounds, GramsPerPound)

MMToInchesSwapped(mm) == FMul(mm, MMPerInch)
MMToInches(mm) == FDiv(mm, MMPerInch)

GramsToPounds(grams) == FDiv(grams, GramsPerPound)

StandardPalletCopied ==
    [MaxLength |-> F64(1016, 1), MaxWidth |-> F64(12192, 10),
     MaxHeight |-> F64(12192, 10), MaxWeight |-> F64(680388, 1)]
StandardPallet ==
    [MaxLength |-> F64(1016, 1), MaxWidth |-> F64(18288, 10),
     MaxHeight |-> F64(12192, 10), MaxWeight |-> F64(680388, 1)]

StandardPallet4048 ==
    [MaxLength |-> F64(1016, 1), MaxWidth |-> F64(12192, 10),
     MaxHeight |-> F64(12192, 10), MaxWeight |-> F64(680388, 1)]

(***************************************************************************)
(* Go values of the API types (client.go, 68-170).  A float64 field of a   *)
(* request or a response holds a decimal with one fractional digit, kept   *)
(* as its number of tenths (encoding/json prints such a value with at most *)
(* one fractional digit and parses that text back to the same float64), or *)
(* NaN.  A slice is nil or a sequence.                                     *)
(***************************************************************************)
Fl(v) == [nan |-> FALSE, v |-> v]
NaNFloat == [nan |-> TRUE, v |-> 0]

NilSlice == [nil |-> TRUE, items |-> <<>>]
Slice(s) == [nil |-> FALSE, items |-> s]

ZeroPoint3D == [X |-> Fl(0), Y |-> Fl(0), Z |-> Fl(0)]
ZeroDimensions == [Length |-> Fl(0), Width |-> Fl(0), Height |-> Fl(0)]
ZeroPlacedCarton ==
    [CartonID |-> "", Position |-> ZeroPoint3D, Dimensions |-> ZeroDimensions,
     Orientation |-> "", Weight |-> Fl(0)]
ZeroPallet ==
    [PalletID |-> 0, TotalWeight |-> Fl(0), TotalHeight |-> Fl(0),
     UtilizationPercentage |-> Fl(0), Cartons |-> NilSlice,
     CenterOfGravity |-> ZeroPoint3D]
ZeroPackingSummary ==
    [TotalPallets |-> 0, TotalCartonsPacked |-> 0,
     AverageUtilization |-> Fl(0), ComputationTimeMs |-> 0]
ZeroPackingResponse ==
    [Pallets |-> NilSlice, Summary |-> ZeroPackingSummary, Error |-> ""]
ZeroHealthResponse == [Status |-> ""]
ZeroMetricsResponse ==
    [TotalRequests |-> 0, TotalCartons |-> 0, TotalPallets |-> 0,
     AverageTimeMs |-> Fl(0), AverageUtilPct |-> Fl(0), SuccessRate |-> Fl(0),
     UptimeSeconds |-> 0, MemoryAllocMB |-> Fl(0), MemorySysMB |-> Fl(0),
     NumGoroutines |-> 0, NumGC |-> 0, LastGCPauseMs |-> Fl(0),
     GoVersion |-> "", BuildVersion |-> "", BuildTime |-> ""]

(***************************************************************************)
(* JSON texts, by their structure.  A number is its literal: a sign, the   *)
(* integer digits and either no fraction part (frac = -1) or one fraction  *)
(* digit.  An object maps its keys to values.  JBad is a text that is not  *)
(* JSON (an empty or truncated body, an HTML error page).                  *)
(***************************************************************************)
JNull == [t |-> "null"]
JBad == [t |-> "bad"]
JBool(b) == [t |-> "bool", b |-> b]
JNum(neg, units, frac) == [t |-> "num", neg |-> neg, units |-> units, frac |-> frac]
JStr(str) == [t |-> "str", s |-> str]
JArr(items) == [t |-> "arr", items |-> items]
JObj(fields) == [t |-> "obj", f |-> fields]

Abs(n) == IF n < 0 THEN -n ELSE n

(***************************************************************************)
(* json.Marshal of the API types, by their struct tags.                    *)
(***************************************************************************)
EncInt(n) == JNum(n < 0, Abs(n), -1)

\* A Go string is any sequence of bytes.  "<ff>" stands for a byte that is
\* not valid UTF-8 and "<fffd>" for the replacement character U+FFFD, which
\* encoding/json writes in place of such a byte.
ToValidUTF8(str) ==
    IF str = "BOX<ff>" THEN "BOX<fffd>" ELSE str

EncString(str) == JStr(ToValidUTF8(str))

\* a float64 prints in the shortest form that reads back: no fraction part
\* for a whole number
EncFloat(x) ==
    JNum(x.v < 0, Abs(x.v) \div 10, IF Abs(x.v) % 10 = 0 THEN -1 ELSE Abs(x.v) % 10)

\* a slice whose elements encode as enc: null for the nil slice
EncSlice(sl, enc) ==
    IF sl.nil THEN JNull ELSE JArr(enc)

EncPoint3D(p) ==
    JObj([x |-> EncFloat(p.X), y |-> EncFloat(p.Y), z |-> EncFloat(p.Z)])

EncDimensions(d) ==
    JObj([length |-> EncFloat(d.Length), width |-> EncFloat(d.Width),
          height |-> EncFloat(d.Height)])

EncPlacedCarton(c) ==
    JObj([carton_id |-> EncString(c.CartonID), position |-> EncPoint3D(c.Position),
          dimensions |-> EncDimensions(c.Dimensions),
          orientation |-> EncString(c.Orientation), weight |-> EncFloat(c.Weight)])

EncPallet(p) ==
    JObj([pallet_id |-> EncInt(p.PalletID),
          total_weight |-> EncFloat(p.TotalWeight),
          total_height |-> EncFloat(p.TotalHeight),
          utilization_percentage |-> EncFloat(p.UtilizationPercentage),
          cartons |-> EncSlice(p.Cartons,
                     [i \in 1..Len(p.Cartons.items) |-> EncPlacedCarton(p.Cartons.items[i])]),
          center_of_gravity |-> EncPoint3D(p.CenterOfGravity)])

EncPackingSummary(sm) ==
    JObj([total_pallets |-> EncInt(sm.TotalPallets),
          total_cartons_packed |-> EncInt(sm.TotalCartonsPacked),
          average_utilization |-> EncFloat(sm.AverageUtilization),
          computation_time_ms |-> EncInt(sm.ComputationTimeMs)])

\* Error is tagged omitempty: the key is left out for the empty string
EncPackingResponse(r) ==
    IF r.Error = ""
    THEN JObj([pallets |-> EncSlice(r.Pallets,
                     [i \in 1..Len(r.Pallets.items) |-> EncPallet(r.Pallets.items[i])]),
               summary |-> EncPackingSummary(r.Summary)])
    ELSE JObj([pallets |-> EncSlice(r.Pallets,
                     [i \in 1..Len(r.Pallets.items) |-> EncPallet(r.Pallets.items[i])]),
               summary |-> EncPackingSummary(r.Summary),
               error |-> EncString(r.Error)])

EncHealthResponse(h) == JObj([status |-> EncString(h.Status)])

EncMetricsResponse(m) ==
    JObj([total_requests |-> EncInt(m.TotalRequests),
          total_cartons |-> EncInt(m.TotalCartons),
          total_pallets |-> EncInt(m.TotalPallets),
          average_time_ms |-> EncFloat(m.AverageTimeMs),
          average_util_pct |-> EncFloat(m.AverageUtilPct),
          success_rate |-> EncFloat(m.SuccessRate),
          uptime_seconds |-> EncInt(m.UptimeSeconds),
          memory_alloc_mb |-> EncFloat(m.MemoryAllocMB),
          memory_sys_mb |-> EncFloat(m.MemorySysMB),
          num_goroutines |-> EncInt(m.NumGoroutines),
          num_gc |-> EncInt(m.NumGC),
          last_gc_pause_ms |-> EncFloat(m.LastGCPauseMs),
          go_version |-> EncString(m.GoVersion),
          build_version |-> EncString(m.BuildVersion),
          build_time |-> EncString(m.BuildTime)])

EncCartonWrongKey(c) ==
    JObj([id |-> EncString(c.ID), length |-> EncFloat(c.Length),
          width |-> EncFloat(c.Width), height |-> EncFloat(c.Height),
          weight |-> EncFloat(c.Weight), qty |-> EncInt(c.Quantity),
          fragile |-> JBool(c.Fragile), allow_rotation |-> JBool(c.AllowRotation)])
EncCarton(c) ==
    JObj([id |-> EncString(c.ID), length |-> EncFloat(c.Length),
          width |-> EncFloat(c.Width), height |-> EncFloat(c.Height),
          weight |-> EncFloat(c.Weight), quantity |-> EncInt(c.Quantity),
          fragile |-> JBool(c.Fragile), allow_rotation |-> JBool(c.AllowRotation)])

EncPalletConstraints(pc) ==
    JObj([max_length |-> EncFloat(pc.MaxLength), max_width |-> EncFloat(pc.MaxWidth),
          max_height |-> EncFloat(pc.MaxHeight), max_weight |-> EncFloat(pc.MaxWeight)])

EncPackingOptions(o) ==
    JObj([support_percentage |-> EncFloat(o.SupportPercentage)])

EncPackingRequest(r) ==
    JObj([cartons |-> EncSlice(r.Cartons,
                     [i \in 1..Len(r.Cartons.items) |-> EncCarton(r.Cartons.items[i])]),
          pallet_constraints |-> EncPalletConstraints(r.PalletConstraints),
          packing_options |-> EncPackingOptions(r.PackingOptions)])

\* the float64 values of a request: json.Marshal refuses NaN
RequestFloats(r) ==
    {r.PalletConstraints.MaxLength, r.PalletConstraints.MaxWidth,
     r.PalletConstraints.MaxHeight, r.PalletConstraints.MaxWeight,
     r.PackingOptions.SupportPercentage}
    \cup UNION {{r.Cartons.items[i].Length, r.Cartons.items[i].Width,
                 r.Cartons.items[i].Height, r.Cartons.items[i].Weight}
                : i \in 1..Len(r.Cartons.items)}

\* json.Marshal(request): the text, or an error
MarshalRequest(r) ==
    IF \E x \in RequestFloats(r) : x.nan
    THEN [err |-> TRUE, data |-> JBad]
    ELSE [err |-> FALSE, data |-> EncPackingRequest(r)]

(***************************************************************************)
(* json.Unmarshal into the API types.  A decoder yields the value and      *)
(* whether the text does not fit the Go type.  null and an absent key      *)
(* leave the zero value; unknown keys are skipped.                         *)
(***************************************************************************)
Ok(v) == [err |-> FALSE, val |-> v]
Fail(v) == [err |-> TRUE, val |-> v]

Field(j, k) == IF k \in DOMAIN j.f THEN j.f[k] ELSE JNull

DecString(j) ==
    IF j.t = "str" THEN Ok(j.s)
    ELSE IF j.t = "null" THEN Ok("")
    ELSE Fail("")

DecFloat(j) ==
    IF j.t = "num"
    THEN LET a == j.units * 10 + Max(j.frac, 0)
         IN  Ok(Fl(IF j.neg THEN -a ELSE a))
    ELSE IF j.t = "null" THEN Ok(Fl(0))
    ELSE Fail(Fl(0))

\* an int takes a literal without fraction part only
DecInt(j) ==
    IF j.t = "num"
    THEN (IF j.frac = -1 THEN Ok(IF j.neg THEN -j.units ELSE j.units) ELSE Fail(0))
    ELSE IF j.t = "null" THEN Ok(0)
    ELSE Fail(0)

\* a uint32 takes no negative literal either
DecUint32(j) ==
    IF j.t = "num"
    THEN (IF j.frac = -1 /\ (~j.neg \/ j.units = 0) THEN Ok(j.units) ELSE Fail(0))
    ELSE IF j.t = "null" THEN Ok(0)
    ELSE Fail(0)

\* the elements of a JSON array
Items(j) == IF j.t = "arr" THEN j.items ELSE <<>>

\* a slice from a JSON array whose elements decode as ds
DecSlice(j, ds) ==
    IF j.t = "arr"
    THEN [err |-> \E i \in 1..Len(ds) : ds[i].err,
          val |-> Slice([i \in 1..Len(ds) |-> ds[i].val])]
    ELSE IF j.t = "null" THEN Ok(NilSlice)
    ELSE Fail(NilSlice)

DecPoint3D(j) ==
    IF j.t = "obj"
    THEN LET px == DecFloat(Field(j, "x"))
             py == DecFloat(Field(j, "y"))
             pz == DecFloat(Field(j, "z"))
         IN  [err |-> px.err \/ py.err \/ pz.err,
              val |-> [X |-> px.val, Y |-> py.val, Z |-> pz.val]]
    ELSE IF j.t = "null" THEN Ok(ZeroPoint3D)
    ELSE Fail(ZeroPoint3D)

DecDimensions(j) ==
    IF j.t = "obj"
    THEN LET l == DecFloat(Field(j, "length"))
             w == DecFloat(Field(j, "width"))
             h == DecFloat(Field(j, "height"))
         IN  [err |-> l.err \/ w.err \/ h.err,
              val |-> [Length |-> l.val, Width |-> w.val, Height |-> h.val]]
    ELSE IF j.t = "null" THEN Ok(ZeroDimensions)
    ELSE Fail(ZeroDimensions)

DecPlacedCarton(j) ==
    IF j.t = "obj"
    THEN LET id == DecString(Field(j, "carton_id"))
             pos == DecPoint3D(Field(j, "position"))
             dim == DecDimensions(Field(j, "dimensions"))
             ori == DecString(Field(j, "orientation"))
             wt == DecFloat(Field(j, "weight"))
         IN  [err |-> id.err \/ pos.err \/ dim.err \/ ori.err \/ wt.err,
              val |-> [CartonID |-> id.val, Position |-> pos.val,
                       Dimensions |-> dim.val, Orientation |-> ori.val,
                       Weight |-> wt.val]]
    ELSE IF j.t = "null" THEN Ok(ZeroPlacedCarton)
    ELSE Fail(ZeroPlacedCarton)

DecPalletWrongKey(j) ==
    IF j.t = "obj"
    THEN LET id == DecInt(Field(j, "pallet_id"))
             tw == DecFloat(Field(j, "weight"))
             th == DecFloat(Field(j, "total_height"))
             up == DecFloat(Field(j, "utilization_percentage"))
             cs == LET a == Items(Field(j, "cartons"))
                   IN  DecSlice(Field(j, "cartons"),
                                [i \in 1..Len(a) |-> DecPlacedCarton(a[i])])
             cg == DecPoint3D(Field(j, "center_of_gravity"))
         IN  [err |-> id.err \/ tw.err \/ th.err \/ up.err \/ cs.err \/ cg.err,
              val |-> [PalletID |-> id.val, TotalWeight |-> tw.val,
                       TotalHeight |-> th.val, UtilizationPercentage |-> up.val,
                       Cartons |-> cs.val, CenterOfGravity |-> cg.val]]
    ELSE IF j.t = "null" THEN Ok(ZeroPallet)
    ELSE Fail(ZeroPallet)
DecPallet(j) ==
    IF j.t = "obj"
    THEN LET id == DecInt(Field(j, "pallet_id"))
             tw == DecFloat(Field(j, "total_weight"))
             th == DecFloat(Field(j, "total_height"))
             up == DecFloat(Field(j, "utilization_percentage"))
             cs == LET a == Items(Field(j, "cartons"))
                   IN  DecSlice(Field(j, "cartons"),
                                [i \in 1..Len(a) |-> DecPlacedCarton(a[i])])
             cg == DecPoint3D(Field(j, "center_of_gravity"))
         IN  [err |-> id.err \/ tw.err \/ th.err \/ up.err \/ cs.err \/ cg.err,
              val |-> [PalletID |-> id.val, TotalWeight |-> tw.val,
                       TotalHeight |-> th.val, UtilizationPercentage |-> up.val,
                       Cartons |-> cs.val, CenterOfGravity |-> cg.val]]
    ELSE IF j.t = "null" THEN Ok(ZeroPallet)
    ELSE Fail(ZeroPallet)

DecPackingSummary(j) ==
    IF j.t = "obj"
    THEN LET tp == DecInt(Field(j, "total_pallets"))
             tc == DecInt(Field(j, "total_cartons_packed"))
             au == DecFloat(Field(j, "average_utilization"))
             ct == DecInt(Field(j, "computation_time_ms"))
         IN  [err |-> tp.err \/ tc.err \/ au.err \/ ct.err,
              val |-> [TotalPallets |-> tp.val, TotalCartonsPacked |-> tc.val,
                       AverageUtilization |-> au.val, ComputationTimeMs |-> ct.val]]
    ELSE IF j.t = "null" THEN Ok(ZeroPackingSummary)
    ELSE Fail(ZeroPackingSummary)

\* json.Unmarshal(body, &response) for a PackingResponse
DecPackingResponse(j) ==
    IF j.t = "obj"
    THEN LET ps == LET a == Items(Field(j, "pallets"))
                   IN  DecSlice(Field(j, "pallets"),
                                [i \in 1..Len(a) |-> DecPallet(a[i])])
             sm == DecPackingSummary(Field(j, "summary"))
             er == DecString(Field(j, "error"))
         IN  [err |-> ps.err \/ sm.err \/ er.err,
              val |-> [Pallets |-> ps.val, Summary |-> sm.val, Error |-> er.val]]
    ELSE IF j.t = "null" THEN Ok(ZeroPackingResponse)
    ELSE Fail(ZeroPackingResponse)

DecHealthResponseWrongKey(j) ==
    IF j.t = "obj"
    THEN LET st == DecString(Field(j, "state"))
         IN  [err |-> st.err, val |-> [Status |-> st.val]]
    ELSE IF j.t = "null" THEN Ok(ZeroHealthResponse)
    ELSE Fail(ZeroHealthResponse)
DecHealthResponse(j) ==
    IF j.t = "obj"
    THEN LET st == DecString(Field(j, "status"))
         IN  [err |-> st.err, val |-> [Status |-> st.val]]
    ELSE IF j.t = "null" THEN Ok(ZeroHealthResponse)
    ELSE Fail(ZeroHealthResponse)

DecMetricsResponse(j) ==
    IF j.t = "obj"
    THEN LET tr == DecInt(Field(j, "total_requests"))
             tc == DecInt(Field(j, "total_cartons"))
             tp == DecInt(Field(j, "total_pallets"))
             at == DecFloat(Field(j, "average_time_ms"))
             au == DecFloat(Field(j, "average_util_pct"))
             sr == DecFloat(Field(j, "success_rate"))
             us == DecInt(Field(j, "uptime_seconds"))
             ma == DecFloat(Field(j, "memory_alloc_mb"))
             ms == DecFloat(Field(j, "memory_sys_mb"))
             ng == DecInt(Field(j, "num_goroutines"))
             gc == DecUint32(Field(j, "num_gc"))
             lp == DecFloat(Field(j, "last_gc_pause_ms"))
             gv == DecString(Field(j, "go_version"))
             bv == DecString(Field(j, "build_version"))
             bt == DecString(Field(j, "build_time"))
         IN  [err |-> tr.err \/ tc.err \/ tp.err \/ at.err \/ au.err \/ sr.err
                      \/ us.err \/ ma.err \/ ms.err \/ ng.err \/ gc.err \/ lp.err
                      \/ gv.err \/ bv.err \/ bt.err,
              val |-> [TotalRequests |-> tr.val, TotalCartons |-> tc.val,
                       TotalPallets |-> tp.val, AverageTimeMs |-> at.val,
                       AverageUtilPct |-> au.val, SuccessRate |-> sr.val,
                       UptimeSeconds |-> us.val, MemoryAllocMB |-> ma.val,
                       MemorySysMB |-> ms.val, NumGoroutines |-> ng.val,
                       NumGC |-> gc.val, LastGCPauseMs |-> lp.val,
                       GoVersion |-> gv.val, BuildVersion |-> bv.val,
                       BuildTime |-> bt.val]]
    ELSE IF j.t = "null" THEN Ok(ZeroMetricsResponse)
    ELSE Fail(ZeroMetricsResponse)

(***************************************************************************)
(* The service's side of a request: the body decoded into a               *)
(* PackingRequest, as the test's server does (client_test.go, 35-39).      *)
(***************************************************************************)
DecBool(j) ==
    IF j.t = "bool" THEN Ok(j.b)
    ELSE IF j.t = "null" THEN Ok(FALSE)
    ELSE Fail(FALSE)

ZeroCarton ==
    [ID |-> "", Length |-> Fl(0), Width |-> Fl(0), Height |-> Fl(0), Weight |-> Fl(0),
     Quantity |-> 0, Fragile |-> FALSE, AllowRotation |-> FALSE]

DecCarton(j) ==
    IF j.t = "obj"
    THEN LET id == DecString(Field(j, "id"))
             l == DecFloat(Field(j, "length"))
             w == DecFloat(Field(j, "width"))
             h == DecFloat(Field(j, "height"))
             wt == DecFloat(Field(j, "weight"))
             q == DecInt(Field(j, "quantity"))
             fr == DecBool(Field(j, "fragile"))
             ar == DecBool(Field(j, "allow_rotation"))
         IN  [err |-> id.err \/ l.err \/ w.err \/ h.err \/ wt.err \/ q.err
                      \/ fr.err \/ ar.err,
              val |-> [ID |-> id.val, Length |-> l.val, Width |-> w.val,
                       Height |-> h.val, Weight |-> wt.val, Quantity |-> q.val,
                       Fragile |-> fr.val, AllowRotation |-> ar.val]]
    ELSE IF j.t = "null" THEN Ok(ZeroCarton)
    ELSE Fail(ZeroCarton)

ZeroPalletConstraints ==
    [MaxLength |-> Fl(0), MaxWidth |-> Fl(0), MaxHeight |-> Fl(0), MaxWeight |-> Fl(0)]

DecPalletConstraints(j) ==
    IF j.t = "obj"
    THEN LET l == DecFloat(Field(j, "max_length"))
             w == DecFloat(Field(j, "max_width"))
             h == DecFloat(Field(j, "max_height"))
             wt == DecFloat(Field(j, "max_weight"))
         IN  [err |-> l.err \/ w.err \/ h.err \/ wt.err,
              val |-> [MaxLength |-> l.val, MaxWidth |-> w.val, MaxHeight |-> h.val,
                       MaxWeight |-> wt.val]]
    ELSE IF j.t = "null" THEN Ok(ZeroPalletConstraints)
    ELSE Fail(ZeroPalletConstraints)

DecPackingOptions(j) ==
    IF j.t = "obj"
    THEN LET sp == DecFloat(Field(j, "support_percentage"))
         IN  [err |-> sp.err, val |-> [SupportPercentage |-> sp.val]]
    ELSE IF j.t = "null" THEN Ok([SupportPercentage |-> Fl(0)])
    ELSE Fail([SupportPercentage |-> Fl(0)])

ZeroPackingRequest ==
    [Cartons |-> NilSlice, PalletConstraints |-> ZeroPalletConstraints,
     PackingOptions |-> [SupportPercentage |-> Fl(0)]]

DecPackingRequest(j) ==
    IF j.t = "obj"
    THEN LET cs == LET a == Items(Field(j, "cartons"))
                   IN  DecSlice(Field(j, "cartons"), [i \in 1..Len(a) |-> DecCarton(a[i])])
             pc == DecPalletConstraints(Field(j, "pallet_constraints"))
             po == DecPackingOptions(Field(j, "packing_options"))
         IN  [err |-> cs.err \/ pc.err \/ po.err,
              val |-> [Cartons |-> cs.val, PalletConstraints |-> pc.val,
                       PackingOptions |-> po.val]]
    ELSE IF j.t \in {"bad", "none"} THEN Fail(ZeroPackingRequest)
    ELSE IF j.t = "null" THEN Ok(ZeroPackingRequest)
    ELSE Fail(ZeroPackingRequest)

\* the request as it arrives: each carton ID as encoding/json writes it
Arriving(r) ==
    [r EXCEPT !.Cartons.items =
         [i \in 1..Len(r.Cartons.items) |->
              [r.Cartons.items[i] EXCEPT !.ID = ToValidUTF8(@)]]]

(***************************************************************************)
(* The values the model draws from.                                        *)
(***************************************************************************)
MaxPallets == 2
MaxTenths == 30

Carton1 ==
    [ID |-> "BOX001", Length |-> Fl(6096), Width |-> Fl(4572), Height |-> Fl(4064),
     Weight |-> Fl(181437), Quantity |-> 30, Fragile |-> FALSE, AllowRotation |-> TRUE]
CartonBad ==
    [ID |-> "", Length |-> Fl(-10), Width |-> Fl(0), Height |-> Fl(4064),
     Weight |-> Fl(0), Quantity |-> 0, Fragile |-> TRUE, AllowRotation |-> FALSE]
CartonNaN == [Carton1 EXCEPT !.Weight = NaNFloat]
\* a carton whose ID is not valid UTF-8
CartonBadID == [Carton1 EXCEPT !.ID = "BOX<ff>", !.Quantity = -3]

\* StandardPallet() to one fractional digit
PalletLimits ==
    [MaxLength |-> Fl(10160), MaxWidth |-> Fl(18288), MaxHeight |-> Fl(12192),
     MaxWeight |-> Fl(6803880)]

Requests ==
    {[Cartons |-> cs, PalletConstraints |-> PalletLimits,
      PackingOptions |-> [SupportPercentage |-> Fl(800)]]
     : cs \in {NilSlice, Slice(<<>>), Slice(<<CartonBad, Carton1>>),
               Slice(<<CartonNaN>>), Slice(<<CartonBadID>>)}}

Placed1 ==
    [CartonID |-> "BOX001_1", Position |-> ZeroPoint3D,
     Dimensions |-> [Length |-> Fl(6096), Width |-> Fl(4572), Height |-> Fl(4064)],
     Orientation |-> "original", Weight |-> Fl(181437)]
Placed2 ==
    [CartonID |-> "BOX001_2",
     Position |-> [X |-> Fl(6096), Y |-> Fl(0), Z |-> Fl(0)],
     Dimensions |-> [Length |-> Fl(4572), Width |-> Fl(6096), Height |-> Fl(4064)],
     Orientation |-> "rotated_z", Weight |-> Fl(181437)]

Pallet1 ==
    [PalletID |-> 1, TotalWeight |-> Fl(362874), TotalHeight |-> Fl(4064),
     UtilizationPercentage |-> Fl(950), Cartons |-> Slice(<<Placed1, Placed2>>),
     CenterOfGravity |-> [X |-> Fl(3048), Y |-> Fl(2286), Z |-> Fl(2032)]]
Pallet2 ==
    [PalletID |-> 2, TotalWeight |-> Fl(181437), TotalHeight |-> Fl(4064),
     UtilizationPercentage |-> Fl(125), Cartons |-> Slice(<<Placed2>>),
     CenterOfGravity |-> [X |-> Fl(2286), Y |-> Fl(3048), Z |-> Fl(2032)]]
\* a pallet heavier than PalletLimits allows, without cartons
PalletHeavy ==
    [PalletID |-> 3, TotalWeight |-> Fl(6803881), TotalHeight |-> Fl(0),
     UtilizationPercentage |-> Fl(0), Cartons |-> Slice(<<>>),
     CenterOfGravity |-> ZeroPoint3D]

Pallets == {Pallet1, Pallet2, PalletHeavy}

RECURSIVE SeqsUpTo(_, _)
SeqsUpTo(S, n) ==
    IF n = 0 THEN {<<>>}
    ELSE LET shorter == SeqsUpTo(S, n - 1)
         IN  shorter \cup {Append(q, e) : q \in shorter, e \in S}

PalletSlices == {NilSlice} \cup {Slice(q) : q \in SeqsUpTo(Pallets, MaxPallets)}

Summaries ==
    {ZeroPackingSummary,
     [TotalPallets |-> 1, TotalCartonsPacked |-> 2,
      AverageUtilization |-> Fl(950), ComputationTimeMs |-> 5]}

ErrorStrings == {"", "carton BIG001 exceeds pallet dimensions"}

PackingResponses ==
    {[Pallets |-> ps, Summary |-> sm, Error |-> e]
     : ps \in PalletSlices, sm \in Summaries, e \in ErrorStrings}

HealthResponses == {[Status |-> st] : st \in {"healthy", "degraded", ""}}

MetricsResponses ==
    {ZeroMetricsResponse,
     [TotalRequests |-> 100, TotalCartons |-> 500, TotalPallets |-> 50,
      AverageTimeMs |-> Fl(105), AverageUtilPct |-> Fl(873), SuccessRate |-> Fl(9),
      UptimeSeconds |-> 3600, MemoryAllocMB |-> Fl(125), MemorySysMB |-> Fl(300),
      NumGoroutines |-> 12, NumGC |-> 7, LastGCPauseMs |-> Fl(2),
      GoVersion |-> "go1.21", BuildVersion |-> "v1.0.0", BuildTime |-> "2024-01-01"]}

\* bodies that encode no response of the API
OddBodies ==
    {JBad, JNull, JStr("Bad Gateway"), JArr(<<>>),
     JObj([pallets |-> JStr("none")]),
     JObj([error |-> JStr("invalid request")]),
     JObj([summary |-> JObj([total_pallets |-> JNum(FALSE, 1, 5)])]),
     JObj([status |-> JNum(FALSE, 1, -1)]),
     JObj([num_gc |-> JNum(TRUE, 1, -1)])}

Bodies ==
    {EncPackingResponse(r) : r \in PackingResponses}
    \cup {EncHealthResponse(h) : h \in HealthResponses}
    \cup {EncMetricsResponse(m) : m \in MetricsResponses}
    \cup OddBodies

StatusOK == 200
Statuses == {StatusOK, 400, 500}

BaseURLs == {"https://palletizer.app", "http://127.0.0.1:8080/", "http://[::1"}

\* url.Parse, as http.NewRequestWithContext applies it
URLParses(u) == u \notin {"http://[::1" \o path : path \in {"/api/v1/pack", "/api/v1/health", "/api/v1/metrics"}}

(***************************************************************************)
(* The client and its constructors (client.go, 44-66).  An HTTP client is  *)
(* a pointer to an http.Client: id tells one from another, Timeout is its  *)
(* time limit for a whole exchange in seconds, 0 for none.                 *)
(***************************************************************************)
NilHTTPClient == [nil |-> TRUE]

\* &http.Client{Timeout: ...}
HTTPClient(id, timeout) == [nil |-> FALSE, id |-> id, Timeout |-> timeout]

\* the HTTP clients a caller hands to NewWithHTTPClient, as the README's
\* example does: a usable client, here one without a time limit
HTTPClients == {HTTPClient("custom", 0)}

NewNoTimeout(u) == [baseURL |-> u, httpClient |-> HTTPClient("default", 0)]
New(u) == [baseURL |-> u, httpClient |-> HTTPClient("default", 120)]

NewWithHTTPClientIgnored(u, h) == New(u)
NewWithHTTPClient(u, h) == [baseURL |-> u, httpClient |-> h]

\* the constructor calls: the function and its arguments
Constructions ==
    {[fn |-> "New", u |-> u, h |-> NilHTTPClient] : u \in BaseURLs}
    \cup {[fn |-> "NewWithHTTPClient", u |-> u, h |-> h] : u \in BaseURLs, h \in HTTPClients}

Construct(m) ==
    IF m.fn = "New" THEN New(m.u) ELSE NewWithHTTPClient(m.u, m.h)

\* the transport failures that can strike an exchange of HTTP client h: its
\* Timeout can end the exchange only when it has one
NetFailures(h) ==
    IF h.Timeout > 0 THEN {"connection reset", "Client.Timeout exceeded"}
    ELSE {"connection reset"}

(***************************************************************************)
(* Errors and results.                                                     *)
(***************************************************************************)
NoErr == [nil |-> TRUE]
\* fmt.Errorf: the message, the status code it names (0: none) and what
\* follows the colon (a wrapped cause, the API's error string, the raw body)
Errorf(msg, status, detail) ==
    [nil |-> FALSE, msg |-> msg, status |-> status, detail |-> detail]

NilResp == [nil |-> TRUE]
Resp(v) == [nil |-> FALSE, v |-> v]

Return(resp, err) == [resp |-> resp, err |-> err]

NoResult == [resp |-> NilResp, err |-> NoErr, none |-> TRUE]
NoRequest == [none |-> TRUE]
NoReply == [none |-> TRUE]
NoBody == [t |-> "none"]

\* ctx.Err()
CtxErr(c) ==
    IF c = "canceled" THEN JStr("context canceled")
    ELSE JStr("context deadline exceeded")

(***************************************************************************)
(* The steps of the calls (client.go, 172-259), as functions of what the   *)
(* network does: net is "ok", or the transport failure that strikes.       *)
(***************************************************************************)
PackRequest(base, data) ==
    [method |-> "POST", url |-> base \o "/api/v1/pack",
     contentType |-> "application/json", body |-> data]

HealthRequestPost(base) ==
    [method |-> "POST", url |-> base \o "/api/v1/health",
     contentType |-> "", body |-> NoBody]
HealthRequest(base) ==
    [method |-> "GET", url |-> base \o "/api/v1/health",
     contentType |-> "", body |-> NoBody]

MetricsRequest(base) ==
    [method |-> "GET", url |-> base \o "/api/v1/metrics",
     contentType |-> "", body |-> NoBody]

\* http.NewRequestWithContext: the request, or an error for a URL that does
\* not parse
NewRequestWithContext(req) ==
    IF URLParses(req.url) THEN [err |-> FALSE, req |-> req]
    ELSE [err |-> TRUE, req |-> req]

\* c.httpClient.Do(req) until the reply's header is in: the error it returns,
\* if any.  The context governs the exchange; the client's Timeout and the
\* network can end it too.
DoError(c, net) ==
    IF c # "active" THEN [err |-> TRUE, cause |-> CtxErr(c)]
    ELSE IF net # "ok" THEN [err |-> TRUE, cause |-> JStr(net)]
    ELSE [err |-> FALSE, cause |-> JStr("")]

\* reading the reply's body to its end (io.ReadAll, or the json.Decoder's
\* reads): the context still governs it
BodyReadUnguarded(c, net, data) == [err |-> FALSE, cause |-> JStr(""), data |-> data]
BodyRead(c, net, data) ==
    IF c # "active" THEN [err |-> TRUE, cause |-> CtxErr(c), data |-> NoBody]
    ELSE IF net # "ok" THEN [err |-> TRUE, cause |-> JStr(net), data |-> NoBody]
    ELSE [err |-> FALSE, cause |-> JStr(""), data |-> data]

\* json.Unmarshal(body, &response): a text that is not JSON is an error
UnmarshalPackingResponse(b) ==
    IF b.t \in {"bad", "none"} THEN Fail(ZeroPackingResponse)
    ELSE DecPackingResponse(b)

PackResultKeepsResponse(status, b) ==
    LET d == UnmarshalPackingResponse(b)
    IN  IF d.err
        THEN Return(NilResp, Errorf("failed to parse response", 0, JStr("json")))
        ELSE IF status # StatusOK
        THEN (IF d.val.Error # ""
              THEN Return(Resp(d.val), Errorf("API error", status, JStr(d.val.Error)))
              ELSE Return(Resp(d.val), Errorf("API returned status", status, b)))
        ELSE Return(Resp(d.val), NoErr)

PackResultStatusFirst(status, b) ==
    LET d == UnmarshalPackingResponse(b)
    IN  IF status # StatusOK
        THEN (IF ~d.err /\ d.val.Error # ""
              THEN Return(NilResp, Errorf("API error", status, JStr(d.val.Error)))
              ELSE Return(NilResp, Errorf("API returned status", status, b)))
        ELSE IF d.err
        THEN Return(NilResp, Errorf("failed to parse response", 0, JStr("json")))
        ELSE Return(Resp(d.val), NoErr)

\* Pack, from the body it has read (client.go, 196-208)
PackResult(status, b) ==
    LET d == UnmarshalPackingResponse(b)
    IN  IF d.err
        THEN Return(NilResp, Errorf("failed to parse response", 0, JStr("json")))
        ELSE IF status # StatusOK
        THEN (IF d.val.Error # ""
              THEN Return(NilResp, Errorf("API error", status, JStr(d.val.Error)))
              ELSE Return(NilResp, Errorf("API returned status", status, b)))
        ELSE Return(Resp(d.val), NoErr)

HealthResultDecodeFirst(c, net, status, b) ==
    LET rd == BodyRead(c, net, b)
        d == IF rd.data.t \in {"bad", "none"} THEN Fail(ZeroHealthResponse)
             ELSE DecHealthResponse(rd.data)
    IN  IF rd.err
        THEN Return(NilResp, Errorf("failed to parse response", 0, rd.cause))
        ELSE IF d.err
        THEN Return(NilResp, Errorf("failed to parse response", 0, JStr("json")))
        ELSE IF status # StatusOK
        THEN Return(NilResp, Errorf("health check failed with status", status, JStr("")))
        ELSE Return(Resp(d.val), NoErr)

\* Health, from the reply's header on (client.go, 224-233)
HealthResult(c, net, status, b) ==
    IF status # StatusOK
    THEN Return(NilResp, Errorf("health check failed with status", status, JStr("")))
    ELSE LET rd == BodyRead(c, net, b)
             d == IF rd.data.t \in {"bad", "none"} THEN Fail(ZeroHealthResponse)
                  ELSE DecHealthResponse(rd.data)
         IN  IF rd.err
             THEN Return(NilResp, Errorf("failed to parse response", 0, rd.cause))
             ELSE IF d.err
             THEN Return(NilResp, Errorf("failed to parse response", 0, JStr("json")))
             ELSE Return(Resp(d.val), NoErr)

\* Metrics, from the reply's header on (client.go, 249-258)
MetricsResult(c, net, status, b) ==
    IF status # StatusOK
    THEN Return(NilResp, Errorf("metrics request failed with status", status, JStr("")))
    ELSE LET rd == BodyRead(c, net, b)
             d == IF rd.data.t \in {"bad", "none"} THEN Fail(ZeroMetricsResponse)
                  ELSE DecMetricsResponse(rd.data)
         IN  IF rd.err
             THEN Return(NilResp, Errorf("failed to parse response", 0, rd.cause))
             ELSE IF d.err
             THEN Return(NilResp, Errorf("failed to parse response", 0, JStr("json")))
             ELSE Return(Resp(d.val), NoErr)

\* what the json.Decoder of Health and Metrics has read of the body: nothing
\* for a status other than 200, which returns before the decoder is made
StreamRead(c, net, status, b) ==
    IF status # StatusOK THEN NoBody ELSE BodyRead(c, net, b).data

NetOutcomes == {"ok", "connection reset", "Client.Timeout exceeded"}

\* what the network can do to an exchange of HTTP client h
NetOutcomesOf(h) == {"ok"} \cup NetFailures(h)

(***************************************************************************)
(* State.  One client, one call at a time.                                 *)
(*   made      the constructor call that made the client                   *)
(*   baseURL   the client's base URL                                       *)
(*   httpClient  the client's HTTP client                                  *)
(*   op, pc    the call in progress and where it stands: "idle", "send"    *)
(*             (Do is writing the request), "wait" (the request is out,    *)
(*             no reply yet), "read" (Do has returned the reply's header), *)
(*             "parse" (Pack holds the whole body), "done" (returned)      *)
(*   ctx       the caller's context: "active", "canceled", "deadline"      *)
(*   cancelAt  where the call stood when its context ended ("none",        *)
(*             "before" the call)                                          *)
(*   request   Pack's argument                                             *)
(*   sent      the HTTP requests handed to the HTTP client by this call    *)
(*   reply     the service's reply: status and body                        *)
(*   body      what the call has read of the reply's body                  *)
(*   result    what the call returned                                      *)
(*   via       for each request in sent, the HTTP client whose Do got it   *)
(* and, for the conversions: the input cin, the function cfn applied to    *)
(* it, its result cout, the inverse applied to that, cback; preset is the  *)
(* pallet a preset function returned.                                      *)
(***************************************************************************)
VARIABLES made, baseURL, httpClient,
          op, pc, ctx, cancelAt, request, sent, reply, body, result, via,
          cstage, cin, cfn, cout, cback, preset,
          calls

consVars == <<made, baseURL, httpClient>>
clientVars == <<made, baseURL, httpClient,
                op, pc, ctx, cancelAt, request, sent, reply, body, result, via>>
convVars == <<cstage, cin, cfn, cout, cback, preset>>
vars == <<made, baseURL, httpClient,
          op, pc, ctx, cancelAt, request, sent, reply, body, result, via,
          cstage, cin, cfn, cout, cback, preset,
          calls>>

NoPreset == [fn |-> "none"]

ConvIdle ==
    /\ cstage = "off"
    /\ cin = FZero(FALSE)
    /\ cfn = "none"
    /\ cout = FZero(FALSE)
    /\ cback = FZero(FALSE)
    /\ preset = NoPreset

\* calls of goroutines that share the client: calls[i] holds the local
\* variables of call i (its operation, where it stands, the requests it
\* handed to Do, the reply Do returned to it, what it returned)
MaxCalls == 2
CallIds == 1..MaxCalls
IdleCall ==
    [op |-> "none", pc |-> "idle", sent |-> <<>>, reply |-> NoReply, result |-> NoResult]
ConcIdle == calls = [i \in CallIds |-> IdleCall]

ClientIdle ==
    /\ op = "none"
    /\ pc = "idle"
    /\ ctx = "active"
    /\ cancelAt = "none"
    /\ request = NoRequest
    /\ sent = <<>>
    /\ reply = NoReply
    /\ body = NoBody
    /\ result = NoResult
    /\ via = <<>>

\* the client as its constructor returns it
Constructed(m) ==
    /\ made = m
    /\ baseURL = Construct(m).baseURL
    /\ httpClient = Construct(m).httpClient

\* New(baseURL) or NewWithHTTPClient(baseURL, httpClient)
Init ==
    /\ \E m \in Constructions : Constructed(m)
    /\ ClientIdle
    /\ ConvIdle
    /\ ConcIdle

\* the call starts: its context, and the request it hands to Do, or the
\* error it returns at once
Begin(o, c, r, built) ==
    /\ pc = "idle"
    /\ op' = o
    /\ ctx' = c
    /\ cancelAt' = IF c = "active" THEN "none" ELSE "before"
    /\ request' = r
    /\ reply' = NoReply
    /\ body' = NoBody
    /\ IF built.err
       THEN /\ sent' = sent
            /\ via' = via
            /\ result' = Return(NilResp, Errorf("failed to create request", 0, JStr("parse")))
            /\ pc' = "done"
       ELSE /\ sent' = Append(sent, built.req)
            /\ via' = Append(via, httpClient)
            /\ result' = NoResult
            /\ pc' = "send"
    /\ UNCHANGED <<consVars, convVars, calls>>

\* Pack(ctx, request), up to c.httpClient.Do (client.go, 173-185)
CallPack(c, r) ==
    LET m == MarshalRequest(r)
    IN  IF m.err
        THEN /\ pc = "idle"
             /\ op' = "Pack"
             /\ ctx' = c
             /\ cancelAt' = IF c = "active" THEN "none" ELSE "before"
             /\ request' = r
             /\ result' = Return(NilResp, Errorf("failed to marshal request", 0, JStr("json")))
             /\ pc' = "done"
             /\ UNCHANGED <<consVars, sent, reply, body, via, convVars, calls>>
        ELSE Begin("Pack", c, r, NewRequestWithContext(PackRequest(baseURL, m.data)))

\* Health(ctx), up to c.httpClient.Do (client.go, 212-218)
CallHealth(c) ==
    Begin("Health", c, NoRequest, NewRequestWithContext(HealthRequest(baseURL)))

\* Metrics(ctx), up to c.httpClient.Do (client.go, 237-243)
CallMetrics(c) ==
    Begin("Metrics", c, NoRequest, NewRequestWithContext(MetricsRequest(baseURL)))

\* the caller cancels the context, or its deadline passes, during the call
Cancel(kind) ==
    /\ pc \in {"send", "wait", "read", "parse"}
    /\ ctx = "active"
    /\ ctx' = kind
    /\ cancelAt' = pc
    /\ UNCHANGED <<consVars, op, pc, request, sent, reply, body, result, via, convVars, calls>>

\* Do has written the request
SendComplete ==
    /\ pc = "send"
    /\ ~DoError(ctx, "ok").err
    /\ pc' = "wait"
    /\ UNCHANGED <<consVars, op, ctx, cancelAt, request, sent, reply, body, result, via, convVars, calls>>

DoFailsRetries(net) ==
    /\ pc \in {"send", "wait"}
    /\ DoError(ctx, net).err
    /\ Len(sent) < 3
    /\ sent' = Append(sent, sent[1])
    /\ via' = Append(via, httpClient)
    /\ pc' = "send"
    /\ UNCHANGED <<consVars, op, ctx, cancelAt, request, reply, body, result, convVars, calls>>

\* Do returns an error (client.go, 186-188, 219-221, 244-246)
DoFails(net) ==
    /\ pc \in {"send", "wait"}
    /\ DoError(ctx, net).err
    /\ result' = Return(NilResp, Errorf("failed to send request", 0, DoError(ctx, net).cause))
    /\ pc' = "done"
    /\ UNCHANGED <<consVars, op, ctx, cancelAt, request, sent, reply, body, via, convVars, calls>>

\* the service replies and Do returns the reply
ServerReply(status, b) ==
    /\ pc = "wait"
    /\ ~DoError(ctx, "ok").err
    /\ reply' = [status |-> status, body |-> b]
    /\ pc' = "read"
    /\ UNCHANGED <<consVars, op, ctx, cancelAt, request, sent, body, result, via, convVars, calls>>

\* Pack reads the body (client.go, 191-194)
PackRead(net) ==
    /\ pc = "read"
    /\ op = "Pack"
    /\ LET rd == BodyRead(ctx, net, reply.body)
       IN  IF rd.err
           THEN /\ result' = Return(NilResp, Errorf("failed to read response", 0, rd.cause))
                /\ pc' = "done"
                /\ body' = body
           ELSE /\ body' = rd.data
                /\ pc' = "parse"
                /\ result' = result
    /\ UNCHANGED <<consVars, op, ctx, cancelAt, request, sent, reply, via, convVars, calls>>

\* Pack decodes the body, looks at the status and returns (client.go, 196-208)
PackFinish ==
    /\ pc = "parse"
    /\ op = "Pack"
    /\ result' = PackResult(reply.status, body)
    /\ pc' = "done"
    /\ UNCHANGED <<consVars, op, ctx, cancelAt, request, sent, reply, body, via, convVars, calls>>

\* Health looks at the status, decodes the body and returns (client.go, 224-233)
HealthFinish(net) ==
    /\ pc = "read"
    /\ op = "Health"
    /\ result' = HealthResult(ctx, net, reply.status, reply.body)
    /\ body' = StreamRead(ctx, net, reply.status, reply.body)
    /\ pc' = "done"
    /\ UNCHANGED <<consVars, op, ctx, cancelAt, request, sent, reply, via, convVars, calls>>

\* Metrics looks at the status, decodes the body and returns (client.go, 249-258)
MetricsFinish(net) ==
    /\ pc = "read"
    /\ op = "Metrics"
    /\ result' = MetricsResult(ctx, net, reply.status, reply.body)
    /\ body' = StreamRead(ctx, net, reply.status, reply.body)
    /\ pc' = "done"
    /\ UNCHANGED <<consVars, op, ctx, cancelAt, request, sent, reply, via, convVars, calls>>

\* the caller takes the result; the client is ready for the next call
Returned ==
    /\ pc = "done"
    /\ op' = "none"
    /\ pc' = "idle"
    /\ ctx' = "active"
    /\ cancelAt' = "none"
    /\ request' = NoRequest
    /\ sent' = <<>>
    /\ reply' = NoReply
    /\ body' = NoBody
    /\ result' = NoResult
    /\ via' = <<>>
    /\ UNCHANGED <<consVars, convVars, calls>>

Next ==
    \/ \E c \in {"active", "canceled"}, r \in Requests : CallPack(c, r)
    \/ \E c \in {"active", "canceled"} : CallHealth(c)
    \/ \E c \in {"active", "canceled"} : CallMetrics(c)
    \/ \E kind \in {"canceled", "deadline"} : Cancel(kind)
    \/ SendComplete
    \/ \E net \in NetOutcomesOf(httpClient) : DoFails(net)
    \/ \E status \in Statuses, b \in Bodies : ServerReply(status, b)
    \/ \E net \in NetOutcomesOf(httpClient) : PackRead(net)
    \/ PackFinish
    \/ \E net \in NetOutcomesOf(httpClient) : HealthFinish(net)
    \/ \E net \in NetOutcomesOf(httpClient) : MetricsFinish(net)
    \/ Returned

Spec == Init /\ [][Next]_vars

(***************************************************************************)
(* The conversions and presets as calls: a caller converts an input and    *)
(* converts the result back, or asks for a pallet preset.                  *)
(***************************************************************************)
ConvFunctions == {"InchesToMM", "PoundsToGrams", "MMToInches", "GramsToPounds"}

Inverse(f) ==
    CASE f = "InchesToMM" -> "MMToInches"
      [] f = "MMToInches" -> "InchesToMM"
      [] f = "PoundsToGrams" -> "GramsToPounds"
      [] f = "GramsToPounds" -> "PoundsToGrams"

Apply(f, v) ==
    CASE f = "InchesToMM" -> InchesToMM(v)
      [] f = "MMToInches" -> MMToInches(v)
      [] f = "PoundsToGrams" -> PoundsToGrams(v)
      [] f = "GramsToPounds" -> GramsToPounds(v)

\* inputs: the decimals 0.0 .. MaxTenths / 10 of either sign, the values of
\* the package's tests and documentation, values of either sign in
\* [2^20, 2^21) and in [2^45, 2^46), and values from 2^46 up
ConvInputs ==
    {F64Lit(sg, n, 10) : sg \in BOOLEAN, n \in 0..MaxTenths}
    \cup {F64(10, 1), F64(254, 1), F64(453592, 100), F64(40, 1), F64(48, 1),
          F64(72, 1), F64(1500, 1), F64(12192, 10), F64(680388, 1)}
    \cup {FScale(F64Lit(sg, n, 10), k) : sg \in BOOLEAN, n \in 10..19, k \in {20, 45}}
    \cup {FScale(F64(n, 10), 46) : n \in 10..19}
    \cup {FScale(F64(15, 10), MaxExp)}

InitConv ==
    /\ Constructed([fn |-> "New", u |-> "https://palletizer.app", h |-> NilHTTPClient])
    /\ ClientIdle
    /\ ConcIdle
    /\ cstage = "in"
    /\ cin \in ConvInputs
    /\ cfn = "none"
    /\ cout = FZero(FALSE)
    /\ cback = FZero(FALSE)
    /\ preset = NoPreset

\* f(cin)
Convert(f) ==
    /\ cstage = "in"
    /\ cfn' = f
    /\ cout' = Apply(f, cin)
    /\ cstage' = "fwd"
    /\ UNCHANGED <<cin, cback, preset, clientVars, calls>>

\* the inverse function applied to the result
ConvertBack ==
    /\ cstage = "fwd"
    /\ cback' = Apply(Inverse(cfn), cout)
    /\ cstage' = "back"
    /\ UNCHANGED <<cin, cfn, cout, preset, clientVars, calls>>

CallStandardPallet ==
    /\ cstage = "in"
    /\ preset' = [fn |-> "StandardPallet", p |-> StandardPallet]
    /\ cstage' = "preset"
    /\ UNCHANGED <<cin, cfn, cout, cback, clientVars, calls>>

CallStandardPallet4048 ==
    /\ cstage = "in"
    /\ preset' = [fn |-> "StandardPallet4048", p |-> StandardPallet4048]
    /\ cstage' = "preset"
    /\ UNCHANGED <<cin, cfn, cout, cback, clientVars, calls>>

NextConv ==
    \/ \E f \in ConvFunctions : Convert(f)
    \/ ConvertBack
    \/ CallStandardPallet
    \/ CallStandardPallet4048

SpecConv == InitConv /\ [][NextConv]_vars

(***************************************************************************)
(* Concurrent calls on one client.  The client's fields are only read      *)
(* (client.go, 179, 185); everything else a call uses is a local variable  *)
(* of that call, and http.Client is safe for concurrent use.  A call's     *)
(* steps are "wait" (Do has the request), "read" (Do has returned the      *)
(* reply), "done".                                                         *)
(***************************************************************************)
ConcStatuses == {StatusOK, 500}

ConcBodies ==
    {EncPackingResponse([Pallets |-> Slice(<<Pallet1>>),
                         Summary |-> [TotalPallets |-> 1, TotalCartonsPacked |-> 2,
                                      AverageUtilization |-> Fl(950),
                                      ComputationTimeMs |-> 5],
                         Error |-> ""]),
     EncPackingResponse([Pallets |-> NilSlice, Summary |-> ZeroPackingSummary,
                         Error |-> "carton BIG001 exceeds pallet dimensions"]),
     EncHealthResponse([Status |-> "healthy"])}

\* resp, err := c.httpClient.Do(httpReq): the reply Do returns to call i is
\* the reply to the request of call i
DeliveredShared(cs, i) ==
    IF cs[1].reply # NoReply THEN cs[1].reply ELSE cs[i].reply
Delivered(cs, i) == cs[i].reply

\* what a call of operation o returns once Do has returned the reply rp
Outcome(o, net, rp) ==
    CASE o = "Pack" ->
             LET rd == BodyRead("active", net, rp.body)
             IN  IF rd.err
                 THEN Return(NilResp, Errorf("failed to read response", 0, rd.cause))
                 ELSE PackResult(rp.status, rd.data)
      [] o = "Health" -> HealthResult("active", net, rp.status, rp.body)
      [] o = "Metrics" -> MetricsResult("active", net, rp.status, rp.body)

ConcBegin(i, o, built) ==
    /\ calls[i].pc = "idle"
    /\ calls' = [calls EXCEPT ![i] =
           IF built.err
           THEN [op |-> o, pc |-> "done", sent |-> <<>>, reply |-> NoReply,
                 result |-> Return(NilResp, Errorf("failed to create request", 0, JStr("parse")))]
           ELSE [op |-> o, pc |-> "wait", sent |-> <<built.req>>, reply |-> NoReply,
                 result |-> NoResult]]
    /\ UNCHANGED <<clientVars, convVars>>

ConcCallPack(i, r) ==
    LET m == MarshalRequest(r)
    IN  IF m.err
        THEN /\ calls[i].pc = "idle"
             /\ calls' = [calls EXCEPT ![i] =
                    [op |-> "Pack", pc |-> "done", sent |-> <<>>, reply |-> NoReply,
                     result |-> Return(NilResp, Errorf("failed to marshal request", 0, JStr("json")))]]
             /\ UNCHANGED <<clientVars, convVars>>
        ELSE ConcBegin(i, "Pack", NewRequestWithContext(PackRequest(baseURL, m.data)))

ConcCallHealth(i) ==
    ConcBegin(i, "Health", NewRequestWithContext(HealthRequest(baseURL)))

ConcCallMetrics(i) ==
    ConcBegin(i, "Metrics", NewRequestWithContext(MetricsRequest(baseURL)))

ConcDoFails(i, net) ==
    /\ calls[i].pc = "wait"
    /\ DoError("active", net).err
    /\ calls' = [calls EXCEPT ![i].pc = "done",
                              ![i].result = Return(NilResp,
                                  Errorf("failed to send request", 0, DoError("active", net).cause))]
    /\ UNCHANGED <<clientVars, convVars>>

ConcServerReply(i, status, b) ==
    /\ calls[i].pc = "wait"
    /\ calls' = [calls EXCEPT ![i].pc = "read",
                              ![i].reply = [status |-> status, body |-> b]]
    /\ UNCHANGED <<clientVars, convVars>>

ConcFinish(i, net) ==
    /\ calls[i].pc = "read"
    /\ calls' = [calls EXCEPT ![i].pc = "done",
                              ![i].result = Outcome(calls[i].op, net, Delivered(calls, i))]
    /\ UNCHANGED <<clientVars, convVars>>

ConcReturned(i) ==
    /\ calls[i].pc = "done"
    /\ calls' = [calls EXCEPT ![i] = IdleCall]
    /\ UNCHANGED <<clientVars, convVars>>

\* the clients the concurrent calls share: one whose requests can be made,
\* one whose base URL does not parse
ConcConstructions ==
    {[fn |-> "New", u |-> "https://palletizer.app", h |-> NilHTTPClient],
     [fn |-> "NewWithHTTPClient", u |-> "http://[::1", h |-> HTTPClient("custom", 0)]}

\* the requests of the concurrent calls: one that is sent, one that
\* json.Marshal refuses
ConcRequests ==
    {[Cartons |-> cs, PalletConstraints |-> PalletLimits,
      PackingOptions |-> [SupportPercentage |-> Fl(800)]]
     : cs \in {Slice(<<Carton1>>), Slice(<<CartonNaN>>)}}

InitConc ==
    /\ \E m \in ConcConstructions : Constructed(m)
    /\ ClientIdle
    /\ ConvIdle
    /\ ConcIdle

NextConc ==
    \/ \E i \in CallIds, r \in ConcRequests : ConcCallPack(i, r)
    \/ \E i \in CallIds : ConcCallHealth(i)
    \/ \E i \in CallIds : ConcCallMetrics(i)
    \/ \E i \in CallIds, net \in NetFailures(httpClient) : ConcDoFails(i, net)
    \/ \E i \in CallIds, status \in ConcStatuses, b \in ConcBodies : ConcServerReply(i, status, b)
    \/ \E i \in CallIds, net \in NetOutcomesOf(httpClient) : ConcFinish(i, net)
    \/ \E i \in CallIds : ConcReturned(i)

SpecConc == InitConc /\ [][NextConc]_vars

(***************************************************************************)
(* The calls of a client made by New, whose HTTP client has a Timeout: the *)
(* timer of an exchange that is still going on runs out, and a call that   *)
(* holds the whole body finishes its own computation.  Nothing is assumed  *)
(* of the service, the network or the caller's context.                    *)
(***************************************************************************)
InitNew ==
    /\ \E u \in BaseURLs : Constructed([fn |-> "New", u |-> u, h |-> NilHTTPClient])
    /\ ClientIdle
    /\ ConvIdle
    /\ ConcIdle

\* the HTTP client's Timeout ends the exchange
TimeoutEnds ==
    /\ "Client.Timeout exceeded" \in NetFailures(httpClient)
    /\ \/ DoFails("Client.Timeout exceeded")
       \/ PackRead("Client.Timeout exceeded")
       \/ HealthFinish("Client.Timeout exceeded")
       \/ MetricsFinish("Client.Timeout exceeded")

\* the steps of Next, with the few requests and replies of the concurrent
\* calls and a body that is not JSON
NextNew ==
    \/ \E c \in {"active", "canceled"}, r \in ConcRequests : CallPack(c, r)
    \/ \E c \in {"active", "canceled"} : CallHealth(c)
    \/ \E c \in {"active", "canceled"} : CallMetrics(c)
    \/ \E kind \in {"canceled", "deadline"} : Cancel(kind)
    \/ SendComplete
    \/ \E net \in NetOutcomesOf(httpClient) : DoFails(net)
    \/ \E status \in ConcStatuses, b \in ConcBodies \cup {JBad} : ServerReply(status, b)
    \/ \E net \in NetOutcomesOf(httpClient) : PackRead(net)
    \/ PackFinish
    \/ \E net \in NetOutcomesOf(httpClient) : HealthFinish(net)
    \/ \E net \in NetOutcomesOf(httpClient) : MetricsFinish(net)
    \/ Returned

SpecNew ==
    /\ InitNew
    /\ [][NextNew]_vars
    /\ WF_vars(TimeoutEnds)
    /\ WF_vars(PackFinish)

(***************************************************************************)
(* Properties.                                                             *)
(***************************************************************************)
\* Pack has returned after reading the whole body b of the reply
PackGot(b) == pc = "done" /\ op = "Pack" /\ body = b

\* every PackingResponse of the model with its JSON encoding
EncodedPackingResponses ==
    {[r |-> r, body |-> EncPackingResponse(r)] : r \in PackingResponses}

\* C1, as claimed: whenever the service's reply carries an error string
\* together with pallets, whatever its status, Pack returns a response that
\* carries that error string and those pallets.
C1_ErrorKeepsPallets ==
    \A e \in EncodedPackingResponses :
        (PackGot(e.body) /\ e.r.Error # "" /\ e.r.Pallets.items # <<>>)
        => /\ ~result.resp.nil
           /\ result.resp.v.Error = e.r.Error
           /\ result.resp.v.Pallets = e.r.Pallets

\* C2, as claimed: when the exchange did not fail at the transport level and
\* the API's reply is a well-formed packing response, with an error string or
\* without, Pack returns a nil error and a non-nil response whose Error field
\* is the API's error string.
C2_ApiErrorInResponse ==
    \A e \in EncodedPackingResponses :
        PackGot(e.body)
        => /\ result.err.nil
           /\ ~result.resp.nil
           /\ result.resp.v.Error = e.r.Error

\* C3: for a reply with status 200 whose body is the JSON encoding of a
\* PackingResponse r, Pack returns a nil error and a response equal to r
\* (pallets in order, their cartons, the summary, the error string).
C3_PackReturnsReply ==
    \A e \in EncodedPackingResponses :
        (PackGot(e.body) /\ reply.status = StatusOK)
        => /\ result.err.nil
           /\ ~result.resp.nil
           /\ result.resp.v = e.r

C3_Witness ==
    /\ PackGot(EncPackingResponse(
           [Pallets |-> Slice(<<Pallet2, Pallet1>>),
            Summary |-> [TotalPallets |-> 1, TotalCartonsPacked |-> 2,
                         AverageUtilization |-> Fl(950), ComputationTimeMs |-> 5],
            Error |-> ""]))
    /\ reply.status = StatusOK
    /\ ~result.resp.nil
    /\ result.resp.v.Pallets.items[2].Cartons.items[1].CartonID = "BOX001_1"

\* C4: every request a call hands to the HTTP client has the call's method
\* and the base URL followed by the call's path: POST /api/v1/pack for Pack,
\* GET /api/v1/health for Health, GET /api/v1/metrics for Metrics.
C4_MethodAndPath ==
    \A i \in 1..Len(sent) :
        /\ op \in {"Pack", "Health", "Metrics"}
        /\ op = "Pack" =>
               sent[i].method = "POST" /\ sent[i].url = baseURL \o "/api/v1/pack"
        /\ op = "Health" =>
               sent[i].method = "GET" /\ sent[i].url = baseURL \o "/api/v1/health"
        /\ op = "Metrics" =>
               sent[i].method = "GET" /\ sent[i].url = baseURL \o "/api/v1/metrics"

C4_Witness ==
    /\ pc = "done"
    /\ op = "Health"
    /\ Len(sent) = 1
    /\ sent[1].url = "https://palletizer.app/api/v1/health"

C6_HealthMetricsReturnReply ==
    /\ \A h \in HealthResponses :
           (pc = "done" /\ op = "Health" /\ body = EncHealthResponse(h)
              /\ reply.status = StatusOK)
           => result.err.nil /\ ~result.resp.nil /\ result.resp.v = h
    /\ \A m \in MetricsResponses :
           (pc = "done" /\ op = "Metrics" /\ body = EncMetricsResponse(m)
              /\ reply.status = StatusOK)
           => result.err.nil /\ ~result.resp.nil /\ result.resp.v = m

C6_Witness ==
    /\ pc = "done"
    /\ op = "Metrics"
    /\ body # NoBody
    /\ body = reply.body
    /\ reply.status = StatusOK
    /\ ~result.resp.nil
    /\ result.resp.v.TotalRequests = 100
    /\ result.resp.v.AverageTimeMs = Fl(105)

\* C9, as claimed: the presets' fields are exactly InchesToMM(40),
\* InchesToMM(72) (for the 40x48 pallet InchesToMM(48)), InchesToMM(48) and
\* PoundsToGrams(1500).
C9_PresetsAreConversions ==
    /\ preset.fn = "StandardPallet" =>
           /\ FEq(preset.p.MaxLength, InchesToMM(F64(40, 1)))
           /\ FEq(preset.p.MaxWidth, InchesToMM(F64(72, 1)))
           /\ FEq(preset.p.MaxHeight, InchesToMM(F64(48, 1)))
           /\ FEq(preset.p.MaxWeight, PoundsToGrams(F64(1500, 1)))
    /\ preset.fn = "StandardPallet4048" =>
           /\ FEq(preset.p.MaxLength, InchesToMM(F64(40, 1)))
           /\ FEq(preset.p.MaxWidth, InchesToMM(F64(48, 1)))
           /\ FEq(preset.p.MaxHeight, InchesToMM(F64(48, 1)))
           /\ FEq(preset.p.MaxWeight, PoundsToGrams(F64(1500, 1)))

\* C9, amended: StandardPallet returns 1016.0, 1828.8, 1219.2, 680388.0 and
\* StandardPallet4048 returns 1016.0, 1219.2, 1219.2, 680388.0; 1016.0 is
\* exactly InchesToMM(40), 1828.8 exactly InchesToMM(72) and 680388.0 exactly
\* PoundsToGrams(1500), while 1219.2 is not InchesToMM(48) but the float64
\* next above it.
C9_PresetsNearConversions ==
    /\ preset.fn = "StandardPallet" =>
           /\ preset.p.MaxLength = F64(1016, 1)
           /\ preset.p.MaxWidth = F64(18288, 10)
           /\ preset.p.MaxHeight = F64(12192, 10)
           /\ preset.p.MaxWeight = F64(680388, 1)
           /\ FEq(preset.p.MaxLength, InchesToMM(F64(40, 1)))
           /\ FEq(preset.p.MaxWidth, InchesToMM(F64(72, 1)))
           /\ preset.p.MaxHeight = FNextUp(InchesToMM(F64(48, 1)))
           /\ FEq(preset.p.MaxWeight, PoundsToGrams(F64(1500, 1)))
    /\ preset.fn = "StandardPallet4048" =>
           /\ preset.p.MaxLength = F64(1016, 1)
           /\ preset.p.MaxWidth = F64(12192, 10)
           /\ preset.p.MaxHeight = F64(12192, 10)
           /\ preset.p.MaxWeight = F64(680388, 1)
           /\ FEq(preset.p.MaxLength, InchesToMM(F64(40, 1)))
           /\ preset.p.MaxWidth = FNextUp(InchesToMM(F64(48, 1)))
           /\ preset.p.MaxHeight = FNextUp(InchesToMM(F64(48, 1)))
           /\ FEq(preset.p.MaxWeight, PoundsToGrams(F64(1500, 1)))

C9_Witness ==
    /\ cstage = "preset"
    /\ preset.fn = "StandardPallet"
    /\ ~FEq(preset.p.MaxHeight, InchesToMM(F64(48, 1)))

\* C10, as claimed: for every value x, converting x and converting the result
\* back gives x again, within 0.01.
C10_RoundTripEveryValue ==
    cstage = "back" => FWithin(cback, cin, 1, 100)

\* C10, amended: InchesToMM multiplies by 25.4 and PoundsToGrams by 453.592,
\* MMToInches and GramsToPounds divide by them, the four give the values the
\* package's test expects, and for every finite x with |x| < 2^46 (about
\* 7.0e13) converting x and converting the result back, in either direction,
\* gives x again within 0.01.
C10_RoundTripBelowPow46 ==
    /\ (cstage = "back" /\ FAbsBelowPow2(cin, 46)) => FWithin(cback, cin, 1, 100)
    /\ (cstage \in {"fwd", "back"} /\ cfn = "InchesToMM") =>
           cout = FMul(cin, F64(254, 10))
    /\ (cstage \in {"fwd", "back"} /\ cfn = "PoundsToGrams") =>
           cout = FMul(cin, F64(453592, 1000))
    /\ (cstage \in {"fwd", "back"} /\ cfn = "MMToInches") =>
           cout = FDiv(cin, F64(254, 10))
    /\ (cstage \in {"fwd", "back"} /\ cfn = "GramsToPounds") =>
           cout = FDiv(cin, F64(453592, 1000))
    /\ (cstage = "fwd" /\ cin = F64(10, 1) /\ cfn = "InchesToMM") =>
           FWithin(cout, F64(254, 1), 1, 100)
    /\ (cstage = "fwd" /\ cin = F64(10, 1) /\ cfn = "PoundsToGrams") =>
           FWithin(cout, F64(453592, 100), 1, 100)
    /\ (cstage = "fwd" /\ cin = F64(254, 1) /\ cfn = "MMToInches") =>
           FWithin(cout, F64(10, 1), 1, 100)
    /\ (cstage = "fwd" /\ cin = F64(453592, 100) /\ cfn = "GramsToPounds") =>
           FWithin(cout, F64(10, 1), 1, 100)

\* a round trip that does not give x exactly, yet within the tolerance
C10_Witness ==
    /\ cstage = "back"
    /\ cfn = "InchesToMM"
    /\ FAbsBelowPow2(cin, 46)
    /\ ~FEq(cback, cin)
    /\ FWithin(cback, cin, 1, 100)

\* the path of each operation (client.go, 179, 213, 238)
PathOf(o) ==
    CASE o = "Pack" -> "/api/v1/pack"
      [] o = "Health" -> "/api/v1/health"
      [] o = "Metrics" -> "/api/v1/metrics"

\* C11: the client New(u) returns has base URL u and a non-nil HTTP client,
\* the client NewWithHTTPClient(u, h) returns has base URL u and HTTP client
\* h; no step of any call, successful or failing, changes the base URL or
\* the HTTP client, and every request of a call is handed to that HTTP
\* client with a URL that starts with u.
C11_ClientIsFixed ==
    /\ [](/\ baseURL = made.u
          /\ ~httpClient.nil
          /\ made.fn = "NewWithHTTPClient" => httpClient = made.h
          /\ Len(via) = Len(sent)
          /\ \A i \in 1..Len(sent) :
                 /\ via[i] = httpClient
                 /\ sent[i].url = made.u \o PathOf(op))
    /\ [][baseURL' = baseURL /\ httpClient' = httpClient]_vars

\* a failing call and the next call's request, on a client with a custom
\* HTTP client
C11_Witness ==
    /\ made.fn = "NewWithHTTPClient"
    /\ made.h = HTTPClient("custom", 0)
    /\ pc = "done"
    /\ ~result.err.nil
    /\ Len(sent) = 1
    /\ via[1] = made.h
    /\ sent[1].url = "https://palletizer.app/api/v1/metrics"

\* C12: with calls of Pack, Health and Metrics running concurrently on one
\* client, in any interleaving, a step of one call changes neither the
\* client nor another call's variables, and what a call returns is decided
\* by its own request and the reply to it: an error of its own marshalling,
\* request or transport when it got no reply, and otherwise the outcome of
\* its own operation on its own reply.
C12_CallsAreIndependent ==
    /\ [](\A i \in CallIds :
              calls[i].pc = "done" =>
                  /\ \A k \in 1..Len(calls[i].sent) :
                         calls[i].sent[k].url = baseURL \o PathOf(calls[i].op)
                  /\ calls[i].reply = NoReply =>
                         /\ calls[i].result.resp.nil
                         /\ ~calls[i].result.err.nil
                         /\ calls[i].result.err.msg \in
                                {"failed to marshal request", "failed to create request",
                                 "failed to send request"}
                  /\ calls[i].reply # NoReply =>
                         \E net \in NetOutcomes :
                             calls[i].result = Outcome(calls[i].op, net, calls[i].reply))
    /\ [][/\ baseURL' = baseURL
          /\ httpClient' = httpClient
          /\ \A i, j \in CallIds :
                 (i # j /\ calls'[i] # calls[i]) => calls'[j] = calls[j]]_vars

\* two calls in progress at once, with different replies: one has returned
\* a response, the other holds the reply to its own request
C12_Witness ==
    /\ calls[1].op = "Health"
    /\ calls[1].pc = "read"
    /\ calls[1].reply.status = 500
    /\ calls[2].op = "Pack"
    /\ calls[2].pc = "done"
    /\ calls[2].reply # NoReply
    /\ calls[2].reply.status = StatusOK
    /\ ~calls[2].result.resp.nil
    /\ calls[2].result.resp.v.Pallets = Slice(<<Pallet1>>)

\* C13, as claimed: for any PackingRequest, every request Pack sends has
\* Content-Type application/json and a body that decodes to a request equal
\* to the caller's.
C13_RequestSentAsGiven ==
    \A i \in 1..Len(sent) :
        op = "Pack" =>
            /\ sent[i].contentType = "application/json"
            /\ DecPackingRequest(sent[i].body) = Ok(request)

\* C13, amended: Pack checks and changes nothing itself; every request it
\* sends has Content-Type application/json and a body that decodes to the
\* caller's request (same cartons in the same order with quantities
\* unexpanded, same pallet constraints, same support percentage, a nil
\* carton list as nil and an empty one as empty), except that bytes of a
\* carton ID that are not valid UTF-8 arrive as U+FFFD; a request with a
\* NaN or infinite float is not sent, Pack returns "failed to marshal
\* request".
C13_RequestSentAsEncoded ==
    /\ \A i \in 1..Len(sent) :
           op = "Pack" =>
               /\ sent[i].contentType = "application/json"
               /\ DecPackingRequest(sent[i].body) = Ok(Arriving(request))
               /\ (\A k \in 1..Len(request.Cartons.items) :
                       request.Cartons.items[k].ID = ToValidUTF8(request.Cartons.items[k].ID))
                  => DecPackingRequest(sent[i].body) = Ok(request)
    /\ (op = "Pack" /\ pc # "idle" /\ \E x \in RequestFloats(request) : x.nan)
       => /\ sent = <<>>
          /\ result.err.msg = "failed to marshal request"

\* an invalid request sent as it is: non-positive dimensions, weight and
\* quantity, an empty ID
C13_Witness ==
    /\ op = "Pack"
    /\ pc = "wait"
    /\ Len(sent) = 1
    /\ request.Cartons = Slice(<<CartonBad, Carton1>>)
    /\ DecPackingRequest(sent[1].body).val.Cartons.items[1].Quantity = 0
    /\ DecPackingRequest(sent[1].body).val = request

\* C14: every call of Pack, Health or Metrics that has returned, on
\* whichever path, returned either a nil result and a non-nil error or a
\* non-nil result and a nil error.
C14_ResultOrError ==
    pc = "done" => (result.resp.nil # result.err.nil)

C14_Witness ==
    /\ pc = "done"
    /\ op = "Pack"
    /\ body = EncPackingResponse(
           [Pallets |-> Slice(<<Pallet1>>), Summary |-> ZeroPackingSummary, Error |-> ""])
    /\ reply.status = 400
    /\ result.resp.nil
    /\ result.err.msg = "API returned status"

C16_StatusBeforeDecode ==
    (pc = "done" /\ op \in {"Health", "Metrics"} /\ reply # NoReply)
    => /\ reply.status # StatusOK =>
              /\ result.resp.nil
              /\ result.err.msg = (IF op = "Health" THEN "health check failed with status"
                                   ELSE "metrics request failed with status")
              /\ result.err.status = reply.status
              /\ body = NoBody
       /\ (reply.status = StatusOK /\ body # NoBody
             /\ (\/ body.t = "bad"
                 \/ op = "Health" /\ DecHealthResponse(body).err
                 \/ op = "Metrics" /\ DecMetricsResponse(body).err)) =>
              /\ result.resp.nil
              /\ result.err.msg = "failed to parse response"

C16_Witness ==
    /\ pc = "done"
    /\ op = "Health"
    /\ reply # NoReply
    /\ reply.status = 400
    /\ reply.body = JBad
    /\ result.err.status = 400

\* C17: a call hands at most one request to the HTTP client, whatever
\* follows (a transport error, a status other than 200, a parse failure),
\* and none when marshalling or the construction of the request fails.
C17_AtMostOneRequest ==
    /\ Len(sent) <= 1
    /\ Len(via) = Len(sent)
    /\ (pc = "done" /\ ~result.err.nil
          /\ result.err.msg \in {"failed to marshal request", "failed to create request"})
       => sent = <<>>
    /\ (pc \in {"send", "wait", "read", "parse"}) => Len(sent) = 1

C17_Witness ==
    /\ pc = "done"
    /\ op = "Pack"
    /\ Len(sent) = 1
    /\ result.err.msg = "failed to send request"
    /\ result.err.detail = JStr("connection reset")

\* C18: on a client made by New every call that has started returns, even
\* if the service never replies and the context is never cancelled; a call
\* that the HTTP client's Timeout ended returns a nil result and a non-nil
\* error.
C18_CallsReturn ==
    /\ (pc \in {"send", "wait", "read", "parse"}) ~> (pc = "done")
    /\ []((pc = "done" /\ ~result.err.nil
             /\ result.err.detail = JStr("Client.Timeout exceeded"))
          => result.resp.nil)

\* the service never replied, the context is still active: the Timeout ended
\* the call
C18_Witness ==
    /\ made.fn = "New"
    /\ httpClient.Timeout = 120
    /\ pc = "done"
    /\ op = "Pack"
    /\ reply = NoReply
    /\ ctx = "active"
    /\ result.resp.nil
    /\ ~result.err.nil
    /\ result.err.detail = JStr("Client.Timeout exceeded")

====
